---------------------------- MODULE Spec2Model ----------------------------
(***************************************************************************)
(* Trial scheduling and adaptive-queue engine of pyoperant                 *)
(* (src/pyoperant/queues.py, src/pyoperant/blocks.py).                     *)
(*                                                                         *)
(* An adaptive procedure is a record tagged with its class ("KS", "DS",    *)
(* "DSR", "MAQ") whose other fields are the attributes of the Python       *)
(* object.  A method is an operator from the object (and the arguments)    *)
(* to its outcomes [st |-> the object afterwards, res |-> what the call    *)
(* returned or raised].  A method that draws random numbers has one        *)
(* outcome per draw, so it is an operator to a SET of outcomes.            *)
(*                                                                         *)
(* Numbers in [0, 1] (random.random(), probe_rate) are in percent.         *)
(* rate_constant is a fraction <<num, den>>; the values used are either    *)
(* dyadic or small enough that the float product of the source is exact.   *)
(* A stimulus is named by its index into stims.                            *)
(***************************************************************************)
EXTENDS Integers, Sequences, FiniteSets, TLC

VARIABLES
    q,      \* the adaptive procedure (or queue) under test
    q0,     \* q as its constructor left it
    disk,   \* the pickle file of a PersistentBase: {} or {snapshot}
    last,   \* the last call made: [op, correct, no_resp, res]
    pre,    \* q as it was before the last call
    pending,\* selections returned by q.next() since the last q.update()
    nvals,  \* values returned so far by a KaernbachStaircase
    ncorr,  \* correct updates so far that acknowledged a DoubleStaircase probe
    h,      \* the BaseHandler whose queue is q: [state, consumed, ondeck]
    hlast,  \* the last call made on the handler: [op, res]
    drv,    \* the driver of the handler: [owed, ok]
    yielded,\* what the handler's generator has yielded since it was (re)built
    got,    \* what the handler's pulls have returned since then
    mb,     \* the named Blocks and the MixedBlockHandler's _trial_index
    mlast,  \* the last call made on a Block or the MixedBlockHandler
    mpre,   \* mb as it was before the last call
    ntrials \* Trials returned since the numbering was last restarted

abvars == <<last, pre, pending, nvals, ncorr>>
hvars == <<h, hlast, drv, yielded, got>>
bvars == <<mb, mlast, mpre, ntrials>>
qvars == <<q, q0, disk, last, pre, pending, nvals, ncorr, h, hlast, drv,
           yielded, got>>
vars == <<q, q0, disk, last, pre, pending, nvals, ncorr, h, hlast, drv,
          yielded, got, mb, mlast, mpre, ntrials>>

---------------------------------------------------------------------------
(* Bounds of the model *)

MaxVal == 3       \* staircase start values are 0..MaxVal
ValCap == 5       \* |val| is kept within ValCap when a rail is None
MaxCrit == 2      \* crit is 0..MaxCrit
MaxStims == 5     \* a stimulus continuum has 1..MaxStims stimuli
MaxCount == 4     \* history counters saturate here
MaxLen == 2       \* an item list has 0..MaxLen items
MaxReps == 2      \* repetitions is 0..MaxReps
MaxDraws == 3     \* a random_queue is asked for at most MaxDraws items
SizeA == 3        \* conditions of block 'a' of a MixedBlockHandler
SizeB == 5        \* conditions of block 'b'
MaxTrials == 8    \* a trial index is at most MaxTrials

---------------------------------------------------------------------------
(* Values *)

Min(a, b) == IF a <= b THEN a ELSE b

\* An optional number: <<>> is None, <<x>> is x.
None == <<>>
Some(x) == <<x>>
IsNone(o) == Len(o) = 0
Val(o) == o[1]

\* random.random() on a grid of [0, 1), in percent
U == {0, 25, 50, 75, 99}

\* What a call returned or raised.  kind: "ret" (a selection: class cls and
\* stimulus index idx, or the staircase value idx), "none" (returned None),
\* "StopIteration", "UsageError" (Exception(update_error_str)), "KeyError",
\* "ValueError", "IndexError", "NotImplementedError".
Raise(k) == [kind |-> k, cls |-> "-", idx |-> 0]
Ret(c, i) == [kind |-> "ret", cls |-> c, idx |-> i]
Returned == [kind |-> "none", cls |-> "-", idx |-> 0]

Out(s, r) == [st |-> s, res |-> r, saved |-> FALSE]

\* The dict DoubleStaircase.trial: {} or {'low': .., 'value': ..}
EmptyTrial == [has |-> FALSE, low |-> FALSE, value |-> 0]
Trial(l, v) == [has |-> TRUE, low |-> l, value |-> v]

---------------------------------------------------------------------------
(* AdaptiveBase *)

\* no_response() as each class overrides it
no_response(s) ==
    CASE s.cls = "DS"  -> [s EXCEPT !.trial = EmptyTrial]
      [] s.cls = "DSR" -> [s EXCEPT !.last_probe = FALSE]
      [] OTHER         -> s

AdaptiveBase_update(s, correct, no_resp) ==
    LET s1 == [s EXCEPT !.updated = TRUE]
    IN  IF no_resp THEN no_response(s1) ELSE s1

\* (mutant) the `updated` check is missing
AdaptiveBase_next_unchecked(s) == FALSE

\* AdaptiveBase.next raises when the last trial was not acknowledged
AdaptiveBase_next_raises(s) == ~s.updated

AdaptiveBase_next(s) == [s EXCEPT !.updated = FALSE]

\* AdaptiveBase.on_load (no base class has an on_load of its own)
AdaptiveBase_on_load(s) == no_response([s EXCEPT !.updated = TRUE])

---------------------------------------------------------------------------
(* KaernbachStaircase *)

KaernbachStaircase(start_val, up, dn, lo, hi, c, method) ==
    [cls |-> "KS", updated |-> TRUE, val |-> start_val,
     stepsize_up |-> up, stepsize_dn |-> dn, min_val |-> lo, max_val |-> hi,
     crit |-> c, crit_method |-> method, counter |-> 0, going_up |-> FALSE]

\* (mutant) the upper rail is not applied
KS_rails_no_max(s, v) ==
    IF ~IsNone(s.min_val) /\ v < Val(s.min_val) THEN Val(s.min_val) ELSE v

\* "stop at max/min if we hit the rails"
KS_rails(s, v) ==
    IF ~IsNone(s.max_val) /\ v > Val(s.max_val) THEN Val(s.max_val)
    ELSE IF ~IsNone(s.min_val) /\ v < Val(s.min_val) THEN Val(s.min_val)
    ELSE v

\* (mutant) the two directions are exchanged
KS_step_swapped(s, correct) ==
    s.val + (IF correct THEN s.stepsize_up ELSE -1 * s.stepsize_dn)

KS_step(s, correct) ==
    s.val + (IF correct THEN -1 * s.stepsize_dn ELSE s.stepsize_up)

\* (mutant) a reversal is counted but the trend is not turned
KS_reversal_no_flip(s, correct) ==
    IF s.crit_method = "reversals" /\ correct = s.going_up
    THEN [s EXCEPT !.counter = @ + 1]
    ELSE s

KS_reversal(s, correct) ==
    IF s.crit_method = "reversals" /\ correct = s.going_up
    THEN [s EXCEPT !.counter = @ + 1, !.going_up = ~@]
    ELSE s

KS_update(s, correct, no_resp) ==
    LET s1 == AdaptiveBase_update(s, correct, no_resp)
        v  == KS_step(s1, correct)
        s2 == KS_reversal(s1, correct)
    IN  Out([s2 EXCEPT !.val = KS_rails(s2, v)], Returned)

\* (mutant) the stop criterion is met one trial early
KS_exhausted_early(s) == s.counter >= s.crit

KS_exhausted(s) == s.counter > s.crit

KS_count(s) ==
    [s EXCEPT !.counter = @ + (IF s.crit_method = "trials" THEN 1 ELSE 0)]

\* (mutant) the trial is counted before the `updated` check
KS_next_counts_first(s) ==
    IF AdaptiveBase_next_raises(s) THEN {Out(KS_count(s), Raise("UsageError"))}
    ELSE LET s1 == AdaptiveBase_next(s)
         IN  IF KS_exhausted(s1) THEN {Out(s1, Raise("StopIteration"))}
             ELSE {Out(KS_count(s1), Ret("-", s1.val))}

KS_next(s) ==
    IF AdaptiveBase_next_raises(s) THEN {Out(s, Raise("UsageError"))}
    ELSE LET s1 == AdaptiveBase_next(s)
         IN  IF KS_exhausted(s1) THEN {Out(s1, Raise("StopIteration"))}
             ELSE {Out(KS_count(s1), Ret("-", s1.val))}

---------------------------------------------------------------------------
(* DoubleStaircase *)

DoubleStaircase(n, rate) ==
    [cls |-> "DS", updated |-> TRUE, n |-> n, rate_constant |-> rate,
     low_idx |-> 0, high_idx |-> n - 1, trial |-> EmptyTrial]

\* (mutant) a correct low-side probe does not move low_idx
DS_move_high_only(s) ==
    IF s.trial.low THEN s ELSE [s EXCEPT !.high_idx = s.trial.value]

DS_move(s) ==
    IF s.trial.low THEN [s EXCEPT !.low_idx = s.trial.value]
                   ELSE [s EXCEPT !.high_idx = s.trial.value]

\* (mutant) an incorrect response moves the probed bound as well
DS_update_always_moves(s, correct, no_resp) ==
    LET s1 == AdaptiveBase_update(s, correct, no_resp)
    IN  IF ~s1.trial.has THEN Out(s1, IF correct THEN Raise("KeyError") ELSE Returned)
        ELSE Out([DS_move(s1) EXCEPT !.trial = EmptyTrial], Returned)

DS_update(s, correct, no_resp) ==
    LET s1 == AdaptiveBase_update(s, correct, no_resp)
    IN  IF correct
        THEN IF ~s1.trial.has THEN Out(s1, Raise("KeyError"))
             ELSE Out([DS_move(s1) EXCEPT !.trial = EmptyTrial], Returned)
        ELSE Out([s1 EXCEPT !.trial = EmptyTrial], Returned)

\* (mutant) the staircase stops only when the bounds meet
DS_converged_late(s) == s.high_idx - s.low_idx <= 0

DS_converged(s) == s.high_idx - s.low_idx <= 1

\* (mutant) the step is truncated, not rounded up
DS_delta_truncated(s) ==
    ((s.high_idx - s.low_idx) * s.rate_constant[1]) \div s.rate_constant[2]

\* (mutant) floor(x) + 1 instead of ceil(x)
DS_delta_floor(s) ==
    ((s.high_idx - s.low_idx) * s.rate_constant[1]) \div s.rate_constant[2] + 1

\* int(np.ceil((high_idx - low_idx) * rate_constant))
DS_delta(s) ==
    LET num == s.rate_constant[1]
        den == s.rate_constant[2]
    IN  ((s.high_idx - s.low_idx) * num + den - 1) \div den

\* stims[i]: a negative index counts from the end, as Python's does
DS_lookup(s, c, i) ==
    IF i >= s.n \/ i < -s.n THEN Raise("IndexError")
    ELSE Ret(c, IF i < 0 THEN s.n + i ELSE i)

DS_probe(s, u) ==
    IF u < 50
    THEN LET t == Trial(TRUE, s.low_idx + DS_delta(s))
         IN  Out([s EXCEPT !.trial = t], DS_lookup(s, "L", t.value))
    ELSE LET t == Trial(FALSE, s.high_idx - DS_delta(s))
         IN  Out([s EXCEPT !.trial = t], DS_lookup(s, "R", t.value))

DS_next(s) ==
    IF AdaptiveBase_next_raises(s) THEN {Out(s, Raise("UsageError"))}
    ELSE LET s1 == AdaptiveBase_next(s)
         IN  IF DS_converged(s1) THEN {Out(s1, Raise("StopIteration"))}
             ELSE {DS_probe(s1, u) : u \in U}

---------------------------------------------------------------------------
(* DoubleStaircaseReinforced *)

DoubleStaircaseReinforced(n, rate, probe_rate, sample_log) ==
    [cls |-> "DSR", updated |-> TRUE, dblstaircase |-> DoubleStaircase(n, rate),
     n |-> n, probe_rate |-> probe_rate, sample_log |-> sample_log,
     last_probe |-> FALSE]

\* (mutant) every update is passed on to the inner staircase
DSR_update_always_inner(s, correct, no_resp) ==
    LET s1 == AdaptiveBase_update(s, correct, no_resp)
        o  == DS_update(s1.dblstaircase, correct, no_resp)
        s2 == [s1 EXCEPT !.dblstaircase = o.st]
    IN  IF o.res.kind # "none" THEN Out(s2, o.res)
        ELSE Out([s2 EXCEPT !.last_probe = FALSE], Returned)

DSR_update(s, correct, no_resp) ==
    LET s1 == AdaptiveBase_update(s, correct, no_resp)
    IN  IF s1.last_probe
        THEN LET o == DS_update(s1.dblstaircase, correct, no_resp)
                 s2 == [s1 EXCEPT !.dblstaircase = o.st]
             IN  IF o.res.kind # "none" THEN Out(s2, o.res)
                 ELSE Out([s2 EXCEPT !.last_probe = FALSE], Returned)
        ELSE Out([s1 EXCEPT !.last_probe = FALSE], Returned)

\* pyoperant.utils.rand_from_log_shape_dist(): a reshaped uniform draw, in
\* percent
rand_from_log_shape_dist == {0, 25, 50, 75, 99}

\* random.randrange(n): the values it can return; none when it raises
\* ValueError (an empty range)
randrange(n) == 0..(n - 1)

\* (mutant) the left easy trial may fall on low_idx itself
DSR_left_inclusive(s) ==
    IF s.sample_log
    THEN {((100 - x) * s.dblstaircase.low_idx) \div 100 :
              x \in rand_from_log_shape_dist}
    ELSE randrange(s.dblstaircase.low_idx + 1)

\* the index of an easy trial on the left (of low_idx)
DSR_left(s) ==
    IF s.sample_log
    THEN {((100 - x) * s.dblstaircase.low_idx) \div 100 :
              x \in rand_from_log_shape_dist}
    ELSE randrange(s.dblstaircase.low_idx)

\* the index of an easy trial on the right (of high_idx)
DSR_right(s) ==
    IF s.sample_log
    THEN {s.dblstaircase.high_idx + (x * (s.n - s.dblstaircase.high_idx)) \div 100 :
              x \in rand_from_log_shape_dist}
    ELSE {s.dblstaircase.high_idx + k : k \in randrange(s.n - s.dblstaircase.high_idx)}

DSR_easy(s, u) ==
    LET s1   == [s EXCEPT !.last_probe = FALSE]
        c    == IF u < 50 THEN "L" ELSE "R"
        vals == IF u < 50 THEN DSR_left(s1) ELSE DSR_right(s1)
    IN  IF vals = {} THEN {Out(s1, Raise("ValueError"))}
        ELSE {Out(s1, DS_lookup(s1, c, v)) : v \in vals}

RECURSIVE DSR_next(_)
\* the probe branch: the inner staircase is asked for the next probe
DSR_probe(s) ==
    UNION {
        LET s1 == [s EXCEPT !.dblstaircase = o.st]
        IN  CASE o.res.kind = "ret" ->
                     {Out([s1 EXCEPT !.last_probe = TRUE], o.res)}
              [] o.res.kind = "StopIteration" ->
                     DSR_next([s1 EXCEPT !.probe_rate = 0, !.last_probe = FALSE])
              [] OTHER -> {Out(s1, o.res)}
        : o \in DS_next(s.dblstaircase)}

DSR_next(s) ==
    IF AdaptiveBase_next_raises(s) THEN {Out(s, Raise("UsageError"))}
    ELSE LET s1 == AdaptiveBase_next(s)
         IN  UNION {IF u < s1.probe_rate THEN DSR_probe(s1)
                    ELSE UNION {DSR_easy(s1, u2) : u2 \in U} : u \in U}

DSR_on_load(s) ==
    LET s1 == AdaptiveBase_on_load(s)
    IN  [s1 EXCEPT !.dblstaircase = AdaptiveBase_on_load(@)]

---------------------------------------------------------------------------
(* Dispatch on the class of a sub-queue *)

SubNext(s) ==
    CASE s.cls = "KS"  -> KS_next(s)
      [] s.cls = "DS"  -> DS_next(s)
      [] s.cls = "DSR" -> DSR_next(s)

SubUpdate(s, correct, no_resp) ==
    CASE s.cls = "KS"  -> KS_update(s, correct, no_resp)
      [] s.cls = "DS"  -> DS_update(s, correct, no_resp)
      [] s.cls = "DSR" -> DSR_update(s, correct, no_resp)

SubOnLoad(s) ==
    IF s.cls = "DSR" THEN DSR_on_load(s) ELSE AdaptiveBase_on_load(s)

---------------------------------------------------------------------------
(* MixedAdaptiveQueue (PersistentBase, AdaptiveBase) *)

MixedAdaptiveQueue(sub_queues, has_probabilities) ==
    [cls |-> "MAQ", updated |-> TRUE, sub_queues |-> sub_queues,
     has_probabilities |-> has_probabilities, sub_queue_idx |-> -1]

\* seq[i] of Python, as a position of the TLA+ sequence (0: IndexError)
PyIndex(seq, i) ==
    IF i >= Len(seq) \/ i < -Len(seq) THEN 0
    ELSE IF i < 0 THEN Len(seq) + i + 1 ELSE i + 1

\* (mutant) the update always goes to the last sub-queue
MAQ_update_last(s, correct, no_resp) ==
    LET s1 == AdaptiveBase_update(s, correct, no_resp)
        p  == Len(s1.sub_queues)
    IN  IF p = 0 THEN Out(s1, Raise("IndexError"))
        ELSE LET o  == SubUpdate(s1.sub_queues[p], correct, no_resp)
                 s2 == [s1 EXCEPT !.sub_queues[p] = o.st]
             IN  IF o.res.kind # "none" THEN Out(s2, o.res)
                 ELSE [st |-> s2, res |-> Returned, saved |-> TRUE]

\* (mutant) the update is not passed on to the selected sub-queue
MAQ_update_outer_only(s, correct, no_resp) ==
    [st |-> AdaptiveBase_update(s, correct, no_resp), res |-> Returned,
     saved |-> TRUE]

\* (mutant) the pickle is not rewritten at the end of update
MAQ_update_unsaved(s, correct, no_resp) ==
    LET s1 == AdaptiveBase_update(s, correct, no_resp)
        p  == PyIndex(s1.sub_queues, s1.sub_queue_idx)
    IN  IF p = 0 THEN Out(s1, Raise("IndexError"))
        ELSE LET o  == SubUpdate(s1.sub_queues[p], correct, no_resp)
             IN  Out([s1 EXCEPT !.sub_queues[p] = o.st], o.res)

MAQ_update(s, correct, no_resp) ==
    LET s1 == AdaptiveBase_update(s, correct, no_resp)
        p  == PyIndex(s1.sub_queues, s1.sub_queue_idx)
    IN  IF p = 0 THEN Out(s1, Raise("IndexError"))
        ELSE LET o  == SubUpdate(s1.sub_queues[p], correct, no_resp)
                 s2 == [s1 EXCEPT !.sub_queues[p] = o.st]
             IN  IF o.res.kind # "none" THEN Out(s2, o.res)
                 ELSE [st |-> s2, res |-> Returned, saved |-> TRUE]

\* (mutant) the sub-queue's stop-signal is let through
MAQ_select_propagates(s, i) ==
    LET s1 == [s EXCEPT !.sub_queue_idx = i]
    IN  {Out([s1 EXCEPT !.sub_queues[i + 1] = o.st], o.res)
         : o \in SubNext(s1.sub_queues[i + 1])}

MAQ_select(s, i) ==
    LET s1 == [s EXCEPT !.sub_queue_idx = i]
    IN  {LET s2 == [s1 EXCEPT !.sub_queues[i + 1] = o.st]
         IN  IF o.res.kind = "StopIteration"
             THEN Out(s2, Raise("NotImplementedError"))
             ELSE Out(s2, o.res)
         : o \in SubNext(s1.sub_queues[i + 1])}

MAQ_next(s) ==
    IF AdaptiveBase_next_raises(s) THEN {Out(s, Raise("UsageError"))}
    ELSE LET s1 == AdaptiveBase_next(s)
         IN  IF s1.has_probabilities
             THEN {Out(s1, Raise("NotImplementedError"))}
             ELSE IF randrange(Len(s1.sub_queues)) = {}
             THEN {Out(s1, Raise("ValueError"))}
             ELSE UNION {MAQ_select(s1, i) : i \in randrange(Len(s1.sub_queues))}

\* PersistentBase.save: the pickle holds the whole object
PersistentBase_save(s) == {s}

\* MixedAdaptiveQueue.on_load: PersistentBase.on_load, which is
\* AdaptiveBase.on_load, then on_load of each sub-queue
MAQ_on_load(s) ==
    LET s1 == AdaptiveBase_on_load(s)
    IN  [s1 EXCEPT !.sub_queues = [i \in DOMAIN @ |-> SubOnLoad(@[i])]]

\* what load returned: the unpickled object, or a newly constructed one
Loaded == [kind |-> "loaded", cls |-> "-", idx |-> 0]
Created == [kind |-> "created", cls |-> "-", idx |-> 0]

\* (mutant) load ignores the pickle and constructs anew
PersistentBase_load_constructs(d, fresh) ==
    [st |-> fresh, disk |-> PersistentBase_save(fresh), res |-> Created]

\* (mutant) load writes the pickle again after on_load
PersistentBase_load_resaves(d, fresh) ==
    IF d = {}
    THEN [st |-> fresh, disk |-> PersistentBase_save(fresh), res |-> Created]
    ELSE LET ab == MAQ_on_load(CHOOSE x \in d : TRUE)
         IN  [st |-> ab, disk |-> PersistentBase_save(ab), res |-> Loaded]

\* PersistentBase.load(filename, *args): d is the file (empty: open raises
\* IOError), fresh the object cls(*args, filename=filename) constructs
PersistentBase_load(d, fresh) ==
    IF d = {}
    THEN [st |-> fresh, disk |-> PersistentBase_save(fresh), res |-> Created]
    ELSE LET ab == CHOOSE x \in d : TRUE
         IN  [st |-> MAQ_on_load(ab), disk |-> d, res |-> Loaded]

---------------------------------------------------------------------------
(* The generators block_queue and random_queue *)

\* a generator object: state "new" until its first next() runs the body
IsGenerator(s) == s.cls \in {"BQ", "RQ"}

Item(x) == Ret("item", x)

\* items_repeated: `repetitions` copies of items, one after the other
Repeat(items, repetitions) ==
    [i \in 1..(Len(items) * repetitions) |-> items[((i - 1) % Len(items)) + 1]]

Range(seq) == {seq[i] : i \in DOMAIN seq}
Count(seq, x) == Cardinality({i \in DOMAIN seq : seq[i] = x})

\* random.shuffle(seq): the orders it can leave seq in
Shuffles(seq) ==
    {s \in [1..Len(seq) -> Range(seq)] :
        \A x \in Range(seq) : Count(s, x) = Count(seq, x)}

block_queue(items, repetitions, shuffle) ==
    [cls |-> "BQ", state |-> "new", items |-> items,
     repetitions |-> repetitions, shuffle |-> shuffle, seq |-> <<>>, pos |-> 0]

\* the body up to the loop: the list the loop will walk
BQ_start(s) ==
    LET items_repeated == Repeat(s.items, s.repetitions)
    IN  {[s EXCEPT !.state = "run", !.seq = l] :
            l \in IF s.shuffle THEN Shuffles(items_repeated)
                  ELSE {items_repeated}}

\* (mutant) the loop stops before the last item
BQ_yield_short(s) ==
    IF s.pos + 1 < Len(s.seq)
    THEN Out([s EXCEPT !.pos = @ + 1], Item(s.seq[s.pos + 1]))
    ELSE Out(s, Raise("StopIteration"))

\* `for item in items: yield item`
BQ_yield(s) ==
    IF s.pos < Len(s.seq)
    THEN Out([s EXCEPT !.pos = @ + 1], Item(s.seq[s.pos + 1]))
    ELSE Out(s, Raise("StopIteration"))

block_queue_next(s) ==
    IF s.state = "new" THEN {BQ_yield(s1) : s1 \in BQ_start(s)}
    ELSE {BQ_yield(s)}

random_queue(items, weights, max_items) ==
    [cls |-> "RQ", state |-> "new", items |-> items, weights |-> weights,
     max_items |-> max_items, ii |-> 0]

\* np.random.choice(items, p=weights): the items of positive weight
choice(items, weights) ==
    {items[i] : i \in {j \in DOMAIN items :
                          IsNone(weights) \/ Val(weights)[j] > 0}}

random_queue_next_one_more(s) ==
    IF s.state = "done" THEN {Out(s, Raise("StopIteration"))}
    ELSE IF s.state = "new" /\ Len(s.items) = 0
    THEN {Out([s EXCEPT !.state = "done"], Raise("ValueError"))}
    ELSE LET s1 == [s EXCEPT !.state = "run"]
         IN  IF ~IsNone(s1.max_items) /\ s1.ii > Val(s1.max_items)
             THEN {Out([s1 EXCEPT !.state = "done"], Raise("StopIteration"))}
             ELSE {Out([s1 EXCEPT !.ii = @ + 1], Item(x)) :
                      x \in choice(s1.items, s1.weights)}

\* a generator that has raised or returned is finished ("done"): its next()
\* raises StopIteration
random_queue_next(s) ==
    IF s.state = "done" THEN {Out(s, Raise("StopIteration"))}
    ELSE IF s.state = "new" /\ Len(s.items) = 0
    THEN {Out([s EXCEPT !.state = "done"], Raise("ValueError"))}
    ELSE LET s1 == [s EXCEPT !.state = "run"]
         IN  IF ~IsNone(s1.max_items) /\ s1.ii >= Val(s1.max_items)
             THEN {Out([s1 EXCEPT !.state = "done"], Raise("StopIteration"))}
             ELSE {Out([s1 EXCEPT !.ii = @ + 1], Item(x)) :
                      x \in choice(s1.items, s1.weights)}

---------------------------------------------------------------------------
(* Dispatch on the class of the object *)

ProcNext(s) ==
    CASE s.cls = "MAQ" -> MAQ_next(s)
      [] s.cls = "BQ"  -> block_queue_next(s)
      [] s.cls = "RQ"  -> random_queue_next(s)
      [] OTHER         -> SubNext(s)

ProcUpdate(s, correct, no_resp) ==
    IF s.cls = "MAQ" THEN MAQ_update(s, correct, no_resp)
    ELSE SubUpdate(s, correct, no_resp)

---------------------------------------------------------------------------
(* The objects a run can start from *)

Rails == {<<None, None>>, <<Some(1), None>>, <<None, Some(MaxVal - 1)>>,
          <<Some(1), Some(MaxVal - 1)>>}
Steps == {<<3, 1>>, <<1, 2>>}     \* <<stepsize_up, stepsize_dn>>

InitKS ==
    {KaernbachStaircase(v, st[1], st[2], r[1], r[2], c, m) :
        v \in 0..MaxVal, st \in Steps, r \in Rails, c \in 0..MaxCrit,
        m \in {"trials", "reversals"}}

Rates == {<<1, 20>>, <<1, 2>>, <<3, 4>>, <<1, 1>>}

InitDS == {DoubleStaircase(n, r) : n \in 1..MaxStims, r \in Rates}

ProbeRates == {0, 50, 100}

InitDSR ==
    {DoubleStaircaseReinforced(n, r, p, sl) :
        n \in 1..MaxStims, r \in {<<1, 2>>, <<1, 1>>}, p \in ProbeRates,
        sl \in BOOLEAN}

\* the sub-queues a MixedAdaptiveQueue is built from
SubQueues ==
    {KaernbachStaircase(2, 3, 1, Some(1), Some(MaxVal - 1), 1, "trials"),
     KaernbachStaircase(2, 1, 2, Some(1), Some(MaxVal - 1), 1, "reversals"),
     DoubleStaircase(MaxStims - 1, <<1, 2>>),
     DoubleStaircaseReinforced(MaxStims - 2, <<1, 1>>, 50, FALSE)}

InitMAQ ==
    {MixedAdaptiveQueue(<<a, b>>, FALSE) : a \in SubQueues, b \in SubQueues}
    \cup {MixedAdaptiveQueue(<<a>>, hp) : a \in SubQueues, hp \in BOOLEAN}

NoCall == [op |-> "init", correct |-> FALSE, no_resp |-> FALSE, res |-> Returned]

\* No Block is built
NoMixed == [blocks |-> <<>>, trial_index |-> None]
NoBlockCall == [op |-> "init", name |-> "-", res |-> Returned]
NoBlocks ==
    /\ mb = NoMixed
    /\ mlast = NoBlockCall
    /\ mpre = NoMixed
    /\ ntrials = 0

\* No handler is built around q
NoHandler == [state |-> "none", consumed |-> FALSE, ondeck |-> None]
NoHandlerCall == [op |-> "init", res |-> Returned]
NoDriver == [owed |-> 0, ok |-> TRUE]

InitWith(S) ==
    /\ q \in S
    /\ h = NoHandler
    /\ hlast = NoHandlerCall
    /\ drv = NoDriver
    /\ yielded = <<>>
    /\ got = <<>>
    /\ NoBlocks
    /\ q0 = q
    /\ disk = IF q.cls = "MAQ" THEN PersistentBase_save(q) ELSE {}
    /\ last = NoCall
    /\ pre = q
    /\ pending = 0
    /\ nvals = 0
    /\ ncorr = 0

---------------------------------------------------------------------------
(* The driver's calls *)

InCapKS(s) == s.cls = "KS" => (s.val <= ValCap /\ s.val >= -ValCap
                               /\ s.counter <= MaxCrit + 2)

InCap(s) ==
    IF s.cls = "MAQ"
    THEN \A i \in 1..Len(s.sub_queues) : InCapKS(s.sub_queues[i])
    ELSE InCapKS(s)

IsProbeAck(s, correct, r) ==
    s.cls = "DS" /\ s.trial.has /\ ~s.updated /\ correct /\ r.kind = "none"

DoNext ==
    \E o \in ProcNext(q) :
        /\ q' = o.st
        /\ last' = [op |-> "next", correct |-> FALSE, no_resp |-> FALSE,
                    res |-> o.res]
        /\ pre' = q
        /\ pending' = IF o.res.kind = "ret" THEN Min(pending + 1, 2) ELSE pending
        /\ nvals' = IF q.cls = "KS" /\ o.res.kind = "ret"
                    THEN Min(nvals + 1, MaxCount) ELSE nvals
        /\ UNCHANGED <<q0, disk, ncorr, hvars, bvars>>

Update(correct, no_resp) ==
    LET o == ProcUpdate(q, correct, no_resp)
    IN  /\ InCap(o.st)
        /\ q' = o.st
        /\ last' = [op |-> "update", correct |-> correct,
                    no_resp |-> no_resp, res |-> o.res]
        /\ pre' = q
        /\ pending' = 0
        /\ ncorr' = IF IsProbeAck(q, correct, o.res)
                    THEN Min(ncorr + 1, MaxCount) ELSE ncorr
        /\ disk' = IF o.saved THEN PersistentBase_save(o.st) ELSE disk
        /\ UNCHANGED <<q0, nvals, hvars, bvars>>

DoUpdate == \E correct \in BOOLEAN, no_resp \in BOOLEAN : Update(correct, no_resp)

Next == DoNext \/ DoUpdate

---------------------------------------------------------------------------
(* BaseHandler: a one-item lookahead over the queue q *)

\* h.state: "new" (__init__ not run), "ready" (__init__ returned), "failed"
\* (__init__ raised); h.ondeck: None or <<the item on deck>>.

\* self._ondeck = next(self.queue), as __init__ and reset() make it: an
\* exception of the queue leaves the call
BH_prime(hd, o) ==
    IF o.res.kind = "ret" THEN [hd EXCEPT !.ondeck = Some(o.res)] ELSE hd

BH_init(o) ==
    LET hd == BH_prime([state |-> "new", consumed |-> FALSE, ondeck |-> None], o)
    IN  [hd EXCEPT !.state = IF o.res.kind = "ret" THEN "ready" ELSE "failed"]

\* (mutant) reset() keeps the consumed flag
BH_reset_keeps_consumed(hd, o) == BH_prime(hd, o)

BH_reset(hd, o) == BH_prime([hd EXCEPT !.consumed = FALSE], o)

\* (mutant) exhaustion empties the deck but is not recorded in consumed
BH_refill_unrecorded(hd, o) ==
    CASE o.res.kind = "ret"           -> [hd EXCEPT !.ondeck = Some(o.res)]
      [] o.res.kind = "StopIteration" -> [hd EXCEPT !.ondeck = None]
      [] OTHER                        -> hd

\* (mutant) at exhaustion the item on deck is kept
BH_refill_keeps_ondeck(hd, o) ==
    CASE o.res.kind = "ret"           -> [hd EXCEPT !.ondeck = Some(o.res)]
      [] o.res.kind = "StopIteration" -> [hd EXCEPT !.consumed = TRUE]
      [] OTHER                        -> hd

\* the refill of __next__: only StopIteration is caught
BH_refill(hd, o) ==
    CASE o.res.kind = "ret"           -> [hd EXCEPT !.ondeck = Some(o.res)]
      [] o.res.kind = "StopIteration" -> [hd EXCEPT !.consumed = TRUE,
                                                    !.ondeck = None]
      [] OTHER                        -> hd

\* (mutant) __next__ gives the item it has just put on deck
BH_result_refilled(next_item, o) ==
    IF o.res.kind = "StopIteration" THEN next_item ELSE o.res

\* what __next__ gives its caller, next_item being the item that was on deck
BH_result(next_item, o) ==
    IF o.res.kind \in {"ret", "StopIteration"} THEN next_item ELSE o.res

\* the history of a generator (of the items yielded or returned): seq with
\* r added when r is an item
Record(seq, s, r) ==
    IF IsGenerator(s) /\ r.kind = "ret" THEN Append(seq, r) ELSE seq

HConstruct ==
    /\ h.state = "new"
    /\ \E o \in ProcNext(q) :
           /\ q' = o.st
           /\ h' = BH_init(o)
           /\ hlast' = [op |-> "init",
                        res |-> IF o.res.kind = "ret" THEN Returned ELSE o.res]
           /\ yielded' = Record(<<>>, q, o.res)
    /\ got' = <<>>
    /\ UNCHANGED <<q0, disk, abvars, drv, bvars>>

HPull ==
    /\ h.state = "ready"
    /\ IF IsNone(h.ondeck)
       THEN /\ hlast' = [op |-> "next", res |-> Raise("StopIteration")]
            /\ drv' = [drv EXCEPT !.ok = @ /\ drv.owed = 0]
            /\ UNCHANGED <<q, h, yielded, got>>
       ELSE \E o \in ProcNext(q) :
                LET r == BH_result(Val(h.ondeck), o)
                IN  /\ q' = o.st
                    /\ h' = BH_refill(h, o)
                    /\ hlast' = [op |-> "next", res |-> r]
                    /\ drv' = [owed |-> IF r.kind = "ret" THEN 1 ELSE drv.owed,
                               ok |-> drv.ok /\ drv.owed = 0]
                    /\ yielded' = Record(yielded, q, o.res)
                    /\ got' = Record(got, q, r)
    /\ UNCHANGED <<q0, disk, abvars, bvars>>

HReset ==
    /\ h.state = "ready"
    /\ \E o \in ProcNext(q0) :
           /\ q' = o.st
           /\ h' = BH_reset(h, o)
           /\ hlast' = [op |-> "reset",
                        res |-> IF o.res.kind = "ret" THEN Returned ELSE o.res]
           /\ yielded' = Record(<<>>, q, o.res)
    /\ got' = <<>>
    /\ UNCHANGED <<q0, disk, abvars, drv, bvars>>

\* the driver reports the outcome of a trial to the queue
HUpdate ==
    /\ h.state = "ready"
    /\ \E correct \in BOOLEAN, no_resp \in BOOLEAN :
           LET o == ProcUpdate(q, correct, no_resp)
           IN  /\ InCap(o.st)
               /\ q' = o.st
               /\ hlast' = [op |-> "update", res |-> o.res]
               /\ drv' = [owed |-> 0, ok |-> drv.ok /\ drv.owed = 1]
    /\ UNCHANGED <<q0, disk, abvars, h, yielded, got, bvars>>

NextH == HConstruct \/ HPull \/ HReset \/ HUpdate

\* the queues a handler is built over
HQueues == SubQueues \cup {DoubleStaircase(2, <<1, 2>>)}

InitH ==
    /\ q \in HQueues
    /\ q0 = q
    /\ disk = {}
    /\ last = NoCall
    /\ pre = q
    /\ pending = 0
    /\ nvals = 0
    /\ ncorr = 0
    /\ h = [NoHandler EXCEPT !.state = "new"]
    /\ hlast = NoHandlerCall
    /\ drv = NoDriver
    /\ yielded = <<>>
    /\ got = <<>>
    /\ NoBlocks

SpecH == InitH /\ [][NextH]_vars

\* the items, the item lists, and the generators a handler is built over
ItemValues == {1, 2}

ItemLists == UNION {[1..n -> ItemValues] : n \in 0..MaxLen}

InitBQ ==
    {block_queue(l, r, sh) : l \in ItemLists, r \in 0..MaxReps, sh \in BOOLEAN}

\* weights: None, or all the weight on the first item
Weights(l) ==
    {None} \cup IF Len(l) = 0 THEN {}
                ELSE {Some([i \in 1..Len(l) |-> IF i = 1 THEN 1 ELSE 0])}

InitRQ ==
    UNION {{random_queue(l, w, m) :
               w \in Weights(l),
               m \in {None} \cup {Some(k) : k \in 0..(MaxDraws - 1)}} :
           l \in ItemLists}

InitG ==
    /\ q \in InitBQ \cup InitRQ
    /\ q0 = q
    /\ disk = {}
    /\ last = NoCall
    /\ pre = q
    /\ pending = 0
    /\ nvals = 0
    /\ ncorr = 0
    /\ h = [NoHandler EXCEPT !.state = "new"]
    /\ hlast = NoHandlerCall
    /\ drv = NoDriver
    /\ yielded = <<>>
    /\ got = <<>>
    /\ NoBlocks

\* block_queue on its own: next() of the generator
SpecBQ == InitWith(InitBQ) /\ [][DoNext]_vars

\* random_queue on its own: next() of the generator, asked for at most
\* MaxDraws items
RQNext == q.ii < MaxDraws /\ DoNext

SpecRQ == InitWith(InitRQ) /\ [][RQNext]_vars

\* a pull, of at most MaxDraws items from a random_queue
GPull == (q.cls = "RQ" => q.ii < MaxDraws) /\ HPull

NextG == HConstruct \/ GPull \/ HReset

\* a BaseHandler over block_queue or random_queue
SpecG == InitG /\ [][NextG]_vars

InitKSOnly == InitWith(InitKS)
SpecKS == InitKSOnly /\ [][Next]_vars

InitDSOnly == InitWith(InitDS)
SpecDS == InitDSOnly /\ [][Next]_vars

InitDSROnly == InitWith(InitDSR)
SpecDSR == InitDSROnly /\ [][Next]_vars

InitMAQOnly == InitWith(InitMAQ)
SpecMAQ == InitMAQOnly /\ [][Next]_vars

\* No object has been made yet (and no pickle written)
NoObject == [cls |-> "none", updated |-> TRUE]

\* the constructor arguments load() is called with
LoadArgs ==
    {MixedAdaptiveQueue(<<KaernbachStaircase(2, 1, 2, Some(1), Some(MaxVal - 1),
                                             1, "reversals"),
                          DoubleStaircaseReinforced(3, <<1, 1>>, 50, FALSE)>>,
                        FALSE),
     MixedAdaptiveQueue(<<DoubleStaircase(4, <<1, 2>>)>>, FALSE),
     MixedAdaptiveQueue(<<DoubleStaircase(2, <<1, 2>>)>>, TRUE)}

\* MixedAdaptiveQueue.load(filename, sub_queues, probabilities), at the start
\* of a session
Load ==
    \E fresh \in LoadArgs :
        LET o == PersistentBase_load(disk, fresh)
        IN  /\ q' = o.st
            /\ disk' = o.disk
            /\ q0' = fresh
            /\ last' = [op |-> "load", correct |-> FALSE, no_resp |-> FALSE,
                        res |-> o.res]
            /\ pre' = q
            /\ pending' = 0
            /\ UNCHANGED <<nvals, ncorr, hvars, bvars>>

\* the driver calls save() itself
Save ==
    /\ q.cls = "MAQ"
    /\ disk' = PersistentBase_save(q)
    /\ last' = [op |-> "save", correct |-> FALSE, no_resp |-> FALSE,
                res |-> Returned]
    /\ pre' = q
    /\ UNCHANGED <<q, q0, pending, nvals, ncorr, hvars, bvars>>

PNext ==
    \/ Load
    \/ Save
    \/ q.cls = "MAQ" /\ DoNext
    \/ q.cls = "MAQ" /\ DoUpdate

InitP ==
    /\ q = NoObject
    /\ h = NoHandler
    /\ hlast = NoHandlerCall
    /\ drv = NoDriver
    /\ yielded = <<>>
    /\ got = <<>>
    /\ NoBlocks
    /\ q0 = q
    /\ disk = {}
    /\ last = NoCall
    /\ pre = q
    /\ pending = 0
    /\ nvals = 0
    /\ ncorr = 0

\* sessions of a MixedAdaptiveQueue kept in a pickle
SpecP == InitP /\ [][PNext]_vars

\* A driver that alternates next() and update() and stops at the stop-signal;
\* the subject keeps answering, and keeps giving correct answers.
StrictNext == pending = 0 /\ last.res.kind # "StopIteration" /\ DoNext
AckCorrect == pending = 1 /\ Update(TRUE, FALSE)
AckIncorrect == pending = 1 /\ \E no_resp \in BOOLEAN : Update(FALSE, no_resp)
NextStrict == StrictNext \/ AckCorrect \/ AckIncorrect
SpecDSFair ==
    InitDSOnly /\ [][NextStrict]_vars /\ WF_vars(StrictNext) /\ SF_vars(AckCorrect)

\* every adaptive procedure
Init == InitWith(InitKS \cup InitDS \cup InitDSR \cup InitMAQ)
Spec == Init /\ [][Next]_vars

---------------------------------------------------------------------------
(* Block: a BaseHandler that numbers the Trials it hands out *)

\* a Block: hd is its BaseHandler part [state, consumed, ondeck], queue the
\* generator it pulls from, queue0 that generator as it is when built from
\* _queue, _items and queue_parameters, trial_index None until __iter__
\* sets it.

\* trials.Trial(index=.., condition=.., block=self)
NewTrial(index, condition, name) ==
    [kind |-> "trial", cls |-> name, idx |-> index, condition |-> condition]

Bool(b) == [kind |-> IF b THEN "True" ELSE "False", cls |-> "-", idx |-> 0]

\* the Blocks that Block(conditions, queue=.., **queue_parameters) can
\* return (none when __init__ raises)
NewBlock(gen0) ==
    {[hd |-> BH_init(o), queue |-> o.st, queue0 |-> gen0, trial_index |-> None] :
        o \in {x \in ProcNext(gen0) : x.res.kind = "ret"}}

\* (mutant) iter(block) rebuilds the queue as well
Block_iter_rearms(b) ==
    [b EXCEPT !.trial_index = Some(0),
              !.hd = [@ EXCEPT !.consumed = FALSE]]

Block_iter_continues(b) ==
    IF IsNone(b.trial_index) THEN [b EXCEPT !.trial_index = Some(0)] ELSE b

Block_iter(b) == [b EXCEPT !.trial_index = Some(0)]

Block_check_completion(b) == b.hd.consumed

\* BaseHandler.reset, which Block inherits
Block_reset(b) ==
    {[st |-> [b EXCEPT !.hd = BH_reset(b.hd, o), !.queue = o.st],
      res |-> IF o.res.kind = "ret" THEN Returned ELSE o.res] :
        o \in ProcNext(b.queue0)}

\* Block.__next__: `self._trial_index += 1` raises AttributeError when
\* __iter__ has never run
Block_next(b, name) ==
    IF IsNone(b.hd.ondeck) THEN {[st |-> b, res |-> Raise("StopIteration")]}
    ELSE {LET condition == BH_result(Val(b.hd.ondeck), o)
              b1 == [b EXCEPT !.hd = BH_refill(b.hd, o), !.queue = o.st]
          IN  IF condition.kind # "ret" THEN [st |-> b1, res |-> condition]
              ELSE IF IsNone(b1.trial_index)
              THEN [st |-> b1, res |-> Raise("AttributeError")]
              ELSE [st |-> [b1 EXCEPT !.trial_index = Some(Val(@) + 1)],
                    res |-> NewTrial(Val(b1.trial_index) + 1, condition.idx, name)]
          : o \in ProcNext(b.queue)}

---------------------------------------------------------------------------
(* MixedBlockHandler: named Blocks and one running trial index *)

\* iter(block), then block.reset()
Rearm(b) == Block_reset(Block_iter(b))

\* MixedBlockHandler.reset (no Block raises in reset: each was built, so its
\* queue yields a first item)
MBH_reset(m) ==
    {[st |-> [blocks |-> [n \in DOMAIN m.blocks |-> f[n].st],
              trial_index |-> Some(0)],
      res |-> Returned] :
        f \in {g \in [DOMAIN m.blocks ->
                         UNION {Rearm(m.blocks[n]) : n \in DOMAIN m.blocks}] :
                  \A n \in DOMAIN m.blocks : g[n] \in Rearm(m.blocks[n])}}

MBH_check_completion_any(m, block_name) ==
    IF block_name # "-" THEN Block_check_completion(m.blocks[block_name])
    ELSE \E n \in DOMAIN m.blocks : Block_check_completion(m.blocks[n])

MBH_check_completion(m, block_name) ==
    IF block_name # "-" THEN Block_check_completion(m.blocks[block_name])
    ELSE \A n \in DOMAIN m.blocks : Block_check_completion(m.blocks[n])

MBH_reset_one_renumbers(m, block_name) ==
    {[st |-> [m EXCEPT !.blocks[block_name] = o.st, !.trial_index = Some(0)],
      res |-> o.res] :
        o \in Rearm(m.blocks[block_name])}

MBH_reset_one(m, block_name) ==
    {[st |-> [m EXCEPT !.blocks[block_name] = o.st], res |-> o.res] :
        o \in Rearm(m.blocks[block_name])}

MBH_next_trial(m, block_name) ==
    LET m1 == [m EXCEPT !.trial_index = Some(Val(@) + 1)]
    IN  {[st |-> [m1 EXCEPT !.blocks[block_name] = o.st],
          res |-> IF o.res.kind = "trial"
                  THEN [o.res EXCEPT !.idx = Val(m1.trial_index)]
                  ELSE o.res] :
            o \in Block_next(m1.blocks[block_name], block_name)}

\* No queue or handler apart from the Blocks
NoQueue ==
    /\ q = NoObject
    /\ q0 = NoObject
    /\ disk = {}
    /\ last = NoCall
    /\ pre = NoObject
    /\ pending = 0
    /\ nvals = 0
    /\ ncorr = 0
    /\ h = NoHandler
    /\ hlast = NoHandlerCall
    /\ drv = NoDriver
    /\ yielded = <<>>
    /\ got = <<>>

\* the call `op` on `name` took mb to o.st and gave o.res
BlockCall(op, name, o) ==
    /\ mb' = o.st
    /\ mlast' = [op |-> op, name |-> name, res |-> o.res]
    /\ mpre' = mb
    /\ UNCHANGED qvars

InCapBlock(b) ==
    /\ ~IsNone(b.trial_index) => Val(b.trial_index) < MaxTrials
    /\ b.queue.cls = "RQ" => b.queue.ii < MaxDraws

\* one Block, used directly
BIter ==
    /\ BlockCall("iter", "a",
                 [st |-> [mb EXCEPT !.blocks["a"] = Block_iter(@)],
                  res |-> Returned])
    /\ ntrials' = 0

BNext ==
    /\ InCapBlock(mb.blocks["a"])
    /\ \E o \in Block_next(mb.blocks["a"], "a") :
           /\ BlockCall("next", "a",
                        [st |-> [mb EXCEPT !.blocks["a"] = o.st], res |-> o.res])
           /\ ntrials' = IF o.res.kind = "trial" THEN ntrials + 1 ELSE ntrials

BReset ==
    /\ \E o \in Block_reset(mb.blocks["a"]) :
           BlockCall("reset", "a",
                     [st |-> [mb EXCEPT !.blocks["a"] = o.st], res |-> o.res])
    /\ UNCHANGED ntrials

BCheck ==
    /\ BlockCall("check", "a",
                 [st |-> mb, res |-> Bool(Block_check_completion(mb.blocks["a"]))])
    /\ UNCHANGED ntrials

NextB == BIter \/ BNext \/ BReset \/ BCheck

\* the queues of a Block used directly: block_queue in the order given, and
\* random_queue (the default)
BlockQueues == {g \in InitBQ : ~g.shuffle} \cup InitRQ

InitB ==
    /\ NoQueue
    /\ \E gen \in BlockQueues :
           \E b \in NewBlock(gen) :
               mb = [blocks |-> [n \in {"a"} |-> b], trial_index |-> None]
    /\ mlast = NoBlockCall
    /\ mpre = mb
    /\ ntrials = 0

SpecB == InitB /\ [][NextB]_vars

\* a MixedBlockHandler over blocks 'a' and 'b'
Names == {"a", "b"}

MReset ==
    /\ \E o \in MBH_reset(mb) : BlockCall("reset", "-", o)
    /\ ntrials' = 0

MResetOne ==
    /\ \E name \in Names : \E o \in MBH_reset_one(mb, name) :
           BlockCall("reset_one", name, o)
    /\ UNCHANGED ntrials

MNextTrial ==
    /\ Val(mb.trial_index) < MaxTrials
    /\ \E name \in Names : \E o \in MBH_next_trial(mb, name) :
           /\ BlockCall("next_trial", name, o)
           /\ ntrials' = IF o.res.kind = "trial" THEN ntrials + 1 ELSE ntrials

MCheck ==
    /\ \E name \in Names \cup {"-"} :
           BlockCall("check", name,
                     [st |-> mb, res |-> Bool(MBH_check_completion(mb, name))])
    /\ UNCHANGED ntrials

NextMB == MReset \/ MResetOne \/ MNextTrial \/ MCheck

\* the Blocks handed to MixedBlockHandler(a=.., b=..): block_queue over
\* SizeA and SizeB conditions
MixedBlocks ==
    {[n \in Names |-> IF n = "a" THEN a ELSE b] :
        a \in NewBlock(block_queue([i \in 1..SizeA |-> i], 1, FALSE)),
        b \in NewBlock(block_queue([i \in 1..SizeB |-> i], 1, FALSE))}

\* MixedBlockHandler.__init__: self.blocks = kwargs; self.reset()
InitMB ==
    /\ NoQueue
    /\ \E bs \in MixedBlocks :
           \E o \in MBH_reset([blocks |-> bs, trial_index |-> None]) : mb = o.st
    /\ mlast = NoBlockCall
    /\ mpre = mb
    /\ ntrials = 0

SpecMB == InitMB /\ [][NextMB]_vars

---------------------------------------------------------------------------
(* PeckingAndPlaybackTest.trial_iter: the driver of a MixedBlockHandler *)

\* the generator has returned (the while loop ended)
Done == [kind |-> "done", cls |-> "-", idx |-> 0]

\* self.panel.response_port.poll(timeout): a peck, or None at the timeout;
\* with start_immediately the response is True
Responses(start_immediately) ==
    IF start_immediately THEN {"peck"} ELSE {"peck", "timeout"}

\* one resumption of the generator, up to its next yield: the handler it
\* leaves, the handler `at` its next_trial call, the block it pulled from
\* and what came out (a trial, the exception of the pull, or Done)
trial_iter(m, response) ==
    IF MBH_check_completion(m, "-")
    THEN {[st |-> m, at |-> m, name |-> "-", res |-> Done]}
    ELSE IF response = "timeout"
    THEN UNION {{[st |-> o.st, at |-> m1, name |-> "playback", res |-> o.res] :
                    o \in MBH_next_trial(m1, "playback")} :
                m1 \in IF MBH_check_completion(m, "playback")
                       THEN {r.st : r \in MBH_reset_one(m, "playback")}
                       ELSE {m}}
    ELSE {[st |-> o.st, at |-> m, name |-> "pecking", res |-> o.res] :
             o \in MBH_next_trial(m, "pecking")}

\* the experiment asks trial_iter for its next trial; a generator that has
\* returned or raised is not resumed
TrialIter ==
    /\ mlast.op = "trial_iter" => mlast.res.kind = "trial"
    /\ Val(mb.trial_index) < MaxTrials
    /\ \E start_immediately \in BOOLEAN :
           \E response \in Responses(start_immediately) :
               \E o \in trial_iter(mb, response) :
                   /\ mb' = o.st
                   /\ mlast' = [op |-> "trial_iter", name |-> o.name,
                                res |-> o.res]
                   /\ mpre' = o.at
                   /\ ntrials' = IF o.res.kind = "trial" THEN ntrials + 1
                                  ELSE ntrials
                   /\ UNCHANGED qvars

\* the queues of the pecking and playback blocks: `queue` with
\* queue_parameters["pecking"] and queue_parameters["playback"]
PeckingQueues ==
    {block_queue([i \in 1..SizeA |-> i], 1, FALSE),
     random_queue(<<1, 2>>, None, Some(MaxLen))}

PlaybackQueues ==
    {block_queue([i \in 1..MaxLen |-> i], 1, FALSE),
     random_queue(<<1, 2>>, None, Some(SizeA))}

\* PeckingAndPlaybackTest.__init__: MixedBlockHandler(pecking=..,
\* playback=..)
InitPP ==
    /\ NoQueue
    /\ \E gp \in PeckingQueues, gb \in PlaybackQueues :
           \E p \in NewBlock(gp), b \in NewBlock(gb) :
               \E o \in MBH_reset([blocks |-> [n \in {"pecking", "playback"} |->
                                                 IF n = "pecking" THEN p ELSE b],
                                    trial_index |-> None]) :
                   mb = o.st
    /\ mlast = NoBlockCall
    /\ mpre = mb
    /\ ntrials = 0

SpecPP == InitPP /\ [][TrialIter]_vars

---------------------------------------------------------------------------
(* Properties *)

Gap(s) == s.high_idx - s.low_idx

\* rate_constant <= 1/2
SmallRate(s) == 2 * s.rate_constant[1] <= s.rate_constant[2]

\* min(max(v, lo), hi), a bound that is None being no bound
Clamp(v, lo, hi) ==
    LET a == IF ~IsNone(lo) /\ v < Val(lo) THEN Val(lo) ELSE v
    IN  IF ~IsNone(hi) /\ a > Val(hi) THEN Val(hi) ELSE a

HasRails(s) == ~IsNone(s.min_val) /\ ~IsNone(s.max_val)

\* C1: for each of the four adaptive procedures and any sequence of calls,
\* next() with `updated` false raises the usage error, a next() that returns
\* a selection leaves `updated` false, update() leaves `updated` true, and
\* never are two selections returned without an update() between them.
C1_Handshake ==
    /\ (last.op = "next" /\ ~pre.updated) => last.res.kind = "UsageError"
    /\ (last.op = "next" /\ last.res.kind = "ret") => ~q.updated
    /\ last.op = "update" => q.updated
    /\ pending <= 1

C1_Witness ==
    /\ q.cls = "MAQ" /\ last.op = "next" /\ ~pre.updated
    /\ pending = 1 /\ last.res.kind = "UsageError"

\* C2: a next() made while the last selection is unacknowledged raises the
\* usage error and leaves every field of the procedure (and the pickle) as
\* it was.
C2_FailedNextIsNoOp ==
    /\ (last.op = "next" /\ pending >= 1) =>
           \/ (last.res.kind = "ret" /\ pending = 1)
           \/ (last.res.kind = "UsageError" /\ q = pre)
    /\ (last.op = "next" /\ ~pre.updated) => q = pre

C2_Witness ==
    /\ q.cls = "KS" /\ q.crit_method = "trials" /\ q.counter = 2
    /\ last.op = "next" /\ last.res.kind = "UsageError" /\ pending = 1

\* C3: a BaseHandler over an adaptive procedure whose driver calls update()
\* exactly once after each item the handler returns (drv.ok) never raises the
\* usage error out of a pull: a pull returns an item or signals exhaustion.
C3_PullNeverUsageError ==
    (drv.ok /\ hlast.op = "next") => hlast.res.kind \in {"ret", "StopIteration"}

C5_Shrinks ==
    q.cls = "DS" =>
        /\ (last.op = "update" /\ last.correct /\ ~last.no_resp /\ pre.trial.has)
               => Gap(q) <= Gap(pre) - 1
        /\ q.n >= 2 => ncorr <= q.n - 2

\* C5: with next() and update() alternating and correct responses recurring,
\* every correct update shrinks the bracket and next() eventually raises the
\* stop-signal, after at most N - 2 correct updates.
C5_Terminates == []C5_Shrinks /\ <>(last.res.kind = "StopIteration")

C5_Witness ==
    /\ q.cls = "DS" /\ q.n = MaxStims /\ ncorr = q.n - 2
    /\ last.res.kind = "StopIteration"

\* C6: DoubleStaircase.update after a returned probe: a correct response to a
\* low-side probe moves low_idx to the probed index and keeps high_idx, a
\* correct response to a high-side probe moves high_idx and keeps low_idx, an
\* incorrect response (no_response or not) keeps both; the remembered probe
\* is cleared in each case.
C6_UpdateMovesProbedBound ==
    (q.cls = "DS" /\ last.op = "update" /\ pre.trial.has /\ ~pre.updated) =>
        /\ (last.correct /\ ~last.no_resp /\ pre.trial.low) =>
               (q.low_idx = pre.trial.value /\ q.high_idx = pre.high_idx)
        /\ (last.correct /\ ~last.no_resp /\ ~pre.trial.low) =>
               (q.high_idx = pre.trial.value /\ q.low_idx = pre.low_idx)
        /\ ~last.correct =>
               (q.low_idx = pre.low_idx /\ q.high_idx = pre.high_idx)
        /\ q.trial = EmptyTrial

C6_Witness ==
    /\ q.cls = "DS" /\ last.op = "update" /\ pre.trial.has /\ ~pre.updated
    /\ ~last.correct /\ last.no_resp /\ pre.low_idx > 0
    /\ pre.high_idx < pre.n - 1 /\ q.trial = EmptyTrial

C8_ValueWithinRails ==
    (q.cls = "KS" /\ HasRails(q)
        /\ Val(q.min_val) <= q0.val /\ q0.val <= Val(q.max_val)) =>
        (Val(q.min_val) <= q.val /\ q.val <= Val(q.max_val))

C8_Witness ==
    /\ q.cls = "KS" /\ HasRails(q)
    /\ Val(q.min_val) <= q0.val /\ q0.val <= Val(q.max_val)
    /\ last.op = "update" /\ ~last.correct
    /\ pre.val + pre.stepsize_up > Val(q.max_val) /\ q.val = Val(q.max_val)

\* C9: KaernbachStaircase.update sets val to clamp(val - stepsize_dn) on a
\* correct trial and to clamp(val + stepsize_up) on an incorrect one, the
\* clamp being to [min_val, max_val]; next() returns val and keeps it.
C9_UpdateSteps ==
    q.cls = "KS" =>
        /\ (last.op = "update" /\ last.correct) =>
               q.val = Clamp(pre.val - pre.stepsize_dn, pre.min_val, pre.max_val)
        /\ (last.op = "update" /\ ~last.correct) =>
               q.val = Clamp(pre.val + pre.stepsize_up, pre.min_val, pre.max_val)
        /\ last.op = "next" => q.val = pre.val
        /\ (last.op = "next" /\ last.res.kind = "ret") => last.res.idx = pre.val

C9_Witness ==
    /\ q.cls = "KS" /\ last.op = "update" /\ ~last.correct
    /\ pre.stepsize_up = 3 /\ q.val = pre.val + 3 /\ IsNone(q.max_val)

\* C10: KaernbachStaircase with crit_method 'trials' and crit = C: counter
\* goes up by 1 on each next() that returns a value and is kept by update();
\* next() returns a value while counter <= C and raises the stop-signal once
\* counter > C, so C + 1 values have been returned when the stop-signal is
\* raised.
C10_TrialsCriterion ==
    (q.cls = "KS" /\ q.crit_method = "trials") =>
        /\ (last.op = "next" /\ last.res.kind = "ret") =>
               q.counter = pre.counter + 1
        /\ (last.op = "next" /\ last.res.kind # "ret") => q.counter = pre.counter
        /\ last.op = "update" => q.counter = pre.counter
        /\ (last.op = "next" /\ pre.updated) =>
               /\ (last.res.kind = "ret") <=> (pre.counter <= pre.crit)
               /\ (last.res.kind = "StopIteration") <=> (pre.counter > pre.crit)
        /\ last.res.kind = "StopIteration" => nvals = q.crit + 1

C10_Witness ==
    /\ q.cls = "KS" /\ q.crit_method = "trials" /\ q.crit = MaxCrit
    /\ last.res.kind = "StopIteration" /\ nvals = MaxCrit + 1

\* KaernbachStaircase counting reversals
Reversals(s) == s.cls = "KS" /\ s.crit_method = "reversals"

\* C11 (each call): with crit_method 'reversals', update(correct, .)
\* adds 1 to counter and turns going_up exactly when correct equals going_up,
\* and keeps both otherwise; next() keeps counter; counter never goes down;
\* after update(c, .) going_up is not c, so that a second update(c, .) cannot
\* count.
C11_EachCall ==
    Reversals(q) =>
        /\ (last.op = "update" /\ last.correct = pre.going_up) =>
               (q.counter = pre.counter + 1 /\ q.going_up = ~pre.going_up)
        /\ (last.op = "update" /\ last.correct # pre.going_up) =>
               (q.counter = pre.counter /\ q.going_up = pre.going_up)
        /\ last.op = "next" =>
               (q.counter = pre.counter /\ q.going_up = pre.going_up)
        /\ q.counter >= pre.counter
        /\ last.op = "update" => q.going_up # last.correct

\* C11 (two updates): of two updates in a row with the same correctness, at
\* most one adds to counter (pre is the state before the first of them).
C11_TwoUpdates ==
    (Reversals(q) /\ last.op = "update" /\ last'.op = "update"
        /\ last'.correct = last.correct) => q'.counter <= pre.counter + 1

\* C11: KaernbachStaircase with crit_method 'reversals' counts a reversal,
\* and turns going_up, exactly when the response agrees with going_up; next()
\* does not count; two updates in a row with the same correctness count at
\* most once; counter never decreases.
C11_Reversals == []C11_EachCall /\ [][C11_TwoUpdates]_vars

C11_Witness ==
    /\ Reversals(q) /\ last.op = "update" /\ last.correct = pre.going_up
    /\ q.counter = 2 /\ q.going_up = ~pre.going_up

\* C12: when a DoubleStaircaseReinforced.next() called with `updated` true
\* chooses a probe and the inner staircase has converged, that same call sets
\* probe_rate to 0 and returns an easy trial, raising no error; from then on
\* every next() called with `updated` true returns an easy trial, and the
\* stop-signal is never raised.
C12_ConvergedServesEasy ==
    q.cls = "DSR" =>
        /\ (last.op = "next" /\ pre.updated /\ pre.probe_rate > 0
                /\ q.probe_rate = 0) =>
               (last.res.kind = "ret" /\ ~q.last_probe)
        /\ (last.op = "next" /\ pre.updated /\ pre.probe_rate = 0
                /\ q0.probe_rate > 0) =>
               (last.res.kind = "ret" /\ ~q.last_probe)
        /\ last.res.kind # "StopIteration"

\* the last call was a DoubleStaircaseReinforced.next() that returned an easy
\* trial, drawn uniformly (sample_log unset)
EasyTrial ==
    /\ q.cls = "DSR" /\ ~q.sample_log
    /\ last.op = "next" /\ last.res.kind = "ret" /\ ~q.last_probe

\* C13 (as claimed): with sample_log unset, an easy trial tagged 'L' has its
\* index in [0, low_idx) and one tagged 'R' has its index in (high_idx, N).
C13_Original ==
    EasyTrial =>
        /\ last.res.cls = "L" =>
               (0 <= last.res.idx /\ last.res.idx < q.dblstaircase.low_idx)
        /\ last.res.cls = "R" =>
               (q.dblstaircase.high_idx < last.res.idx /\ last.res.idx < q.n)

\* C13 (amended): with sample_log unset, an easy trial tagged 'L' has its
\* index in [0, low_idx) and one tagged 'R' has its index in [high_idx, N):
\* the right side can fall on high_idx itself.
C13_EasyOutsideBracket ==
    EasyTrial =>
        /\ last.res.cls \in {"L", "R"}
        /\ last.res.cls = "L" =>
               (0 <= last.res.idx /\ last.res.idx < q.dblstaircase.low_idx)
        /\ last.res.cls = "R" =>
               (q.dblstaircase.high_idx <= last.res.idx /\ last.res.idx < q.n)

C13_Witness ==
    /\ EasyTrial /\ last.res.cls = "R"
    /\ last.res.idx = q.dblstaircase.high_idx
    /\ q.dblstaircase.high_idx < q.n - 1 /\ q.dblstaircase.low_idx > 0

\* C14: in DoubleStaircaseReinforced the inner staircase's low_idx and
\* high_idx change only in an outer update() that follows a next() which
\* returned a probe (last_probe is set only while such a probe is
\* unacknowledged); an easy trial, and the update() that follows it, leave
\* the whole inner state (low_idx, high_idx, remembered probe, `updated`)
\* unchanged.
C14_InnerOnlyByProbes ==
    q.cls = "DSR" =>
        /\ (q.dblstaircase.low_idx # pre.dblstaircase.low_idx
                \/ q.dblstaircase.high_idx # pre.dblstaircase.high_idx) =>
               (last.op = "update" /\ pre.last_probe)
        /\ q.last_probe =>
               (pending = 1 /\ ~q.updated /\ q.dblstaircase.trial.has)
        /\ (last.op = "update" /\ ~pre.last_probe) =>
               q.dblstaircase = pre.dblstaircase
        /\ (last.op = "next" /\ last.res.kind = "ret" /\ ~q.last_probe) =>
               q.dblstaircase = pre.dblstaircase

C14_Witness ==
    /\ q.cls = "DSR" /\ last.op = "update" /\ last.correct
    /\ ~pre.last_probe /\ ~pre.updated /\ pending = 0
    /\ q.dblstaircase.low_idx > 0 /\ q.dblstaircase = pre.dblstaircase

\* the sub-queues of s other than sub_queues[idx] are as they are in p
OthersKept(s, p, idx) ==
    /\ Len(s.sub_queues) = Len(p.sub_queues)
    /\ \A i \in 1..Len(s.sub_queues) :
           i # PyIndex(s.sub_queues, idx) => s.sub_queues[i] = p.sub_queues[i]

\* C15: in a MixedAdaptiveQueue without probabilities, next() draws
\* sub_queue_idx and calls next() of that sub-queue only; update() keeps
\* sub_queue_idx and calls update() of that sub-queue only, so the update
\* reaches exactly the sub-queue that produced the selection of the most
\* recent next(), and the other sub-queues are unchanged by both calls.
C15_UpdateToSelected ==
    (q.cls = "MAQ" /\ ~q.has_probabilities) =>
        /\ (last.op = "next" /\ pre.updated) =>
               /\ q.sub_queue_idx \in 0..(Len(q.sub_queues) - 1)
               /\ OthersKept(q, pre, q.sub_queue_idx)
        /\ (last.op = "next" /\ last.res.kind = "ret") =>
               ~q.sub_queues[q.sub_queue_idx + 1].updated
        /\ (last.op = "next" /\ ~pre.updated) =>
               q.sub_queue_idx = pre.sub_queue_idx
        /\ last.op = "update" =>
               /\ q.sub_queue_idx = pre.sub_queue_idx
               /\ OthersKept(q, pre, q.sub_queue_idx)
               /\ q.sub_queues[PyIndex(q.sub_queues, q.sub_queue_idx)].updated

C15_Witness ==
    /\ q.cls = "MAQ" /\ ~q.has_probabilities /\ Len(q.sub_queues) = 2
    /\ last.op = "update" /\ q.sub_queue_idx = 0
    /\ ~pre.sub_queues[1].updated /\ q.sub_queues[1].updated
    /\ q.sub_queues[2] # q0.sub_queues[2] /\ q.sub_queues[2] = pre.sub_queues[2]

\* C16: right after a MixedAdaptiveQueue is constructed, and right after each
\* update() that returns, the pickle holds exactly the object in memory.
C16_SnapshotAfterUpdate ==
    (q.cls = "MAQ" /\ (last.op = "init"
                          \/ (last.op = "update" /\ last.res.kind = "none"))) =>
        disk = {q}

C16_Witness ==
    /\ q.cls = "MAQ" /\ last.op = "update" /\ last.res.kind = "none"
    /\ pending = 0 /\ ~pre.updated /\ q # pre /\ q # q0 /\ disk = {q}

\* next() of sub-queue s, called with `updated` true, raises the stop-signal
SubExhausted(s) ==
    /\ s.updated
    /\ CASE s.cls = "KS"  -> KS_exhausted(s)
         [] s.cls = "DS"  -> DS_converged(s)
         [] s.cls = "DSR" -> FALSE

\* C17 (as claimed): with probabilities set every MixedAdaptiveQueue.next()
\* fails with the not-implemented error; when the selected sub-queue raises
\* the stop-signal, next() fails with the not-implemented error; the
\* stop-signal never leaves next().
C17_Original ==
    (q.cls = "MAQ" /\ last.op = "next") =>
        /\ q.has_probabilities => last.res.kind = "NotImplementedError"
        /\ (~q.has_probabilities /\ pre.updated
                /\ SubExhausted(pre.sub_queues[q.sub_queue_idx + 1])) =>
               last.res.kind = "NotImplementedError"
        /\ last.res.kind # "StopIteration"

\* C17 (amended): with probabilities set no next() returns a selection: a
\* next() called with `updated` true fails with the not-implemented error,
\* and one called with `updated` false fails with the usage error; when the
\* selected sub-queue raises the stop-signal, next() fails with the
\* not-implemented error, keeping the other sub-queues; the stop-signal never
\* leaves next().
C17_Unsupported ==
    (q.cls = "MAQ" /\ last.op = "next") =>
        /\ (q.has_probabilities /\ pre.updated) =>
               last.res.kind = "NotImplementedError"
        /\ (q.has_probabilities /\ ~pre.updated) =>
               last.res.kind = "UsageError"
        /\ (~q.has_probabilities /\ pre.updated
                /\ SubExhausted(pre.sub_queues[q.sub_queue_idx + 1])) =>
               /\ last.res.kind = "NotImplementedError"
               /\ OthersKept(q, pre, q.sub_queue_idx)
        /\ last.res.kind # "StopIteration"

C17_Witness ==
    /\ q.cls = "MAQ" /\ last.op = "next" /\ ~q.has_probabilities
    /\ pre.updated /\ Len(q.sub_queues) = 2
    /\ SubExhausted(pre.sub_queues[q.sub_queue_idx + 1])
    /\ last.res.kind = "NotImplementedError"

\* `updated` is true in s and in every procedure nested in it, and no probe
\* is remembered
Rearmed(s) ==
    /\ s.updated
    /\ \A i \in 1..Len(s.sub_queues) :
           LET sub == s.sub_queues[i]
           IN  /\ sub.updated
               /\ sub.cls = "DS" => sub.trial = EmptyTrial
               /\ sub.cls = "DSR" =>
                      /\ ~sub.last_probe
                      /\ sub.dblstaircase.updated
                      /\ sub.dblstaircase.trial = EmptyTrial

\* C18 (flags): load() returns a procedure in which `updated` is true at
\* every level and the probe bookkeeping is cleared.
C18_Rearmed == last.op = "load" => Rearmed(q)

\* C18: after load(), `updated` is true in the procedure and in every nested
\* sub-procedure, the pending-probe bookkeeping is cleared, and the first
\* next() after load() does not fail with the usage error.
C18_LoadRearms ==
    last.op = "load" =>
        /\ Rearmed(q)
        /\ \A o \in ProcNext(q) : o.res.kind # "UsageError"

\* the fields of a procedure other than `updated` and the probe bookkeeping
\* (DoubleStaircase.trial, DoubleStaircaseReinforced.last_probe)
NumericDS(s) == <<s.n, s.rate_constant, s.low_idx, s.high_idx>>
NumericSub(s) ==
    CASE s.cls = "KS"  -> <<s.val, s.counter, s.going_up, s.stepsize_up,
                            s.stepsize_dn, s.min_val, s.max_val, s.crit,
                            s.crit_method>>
      [] s.cls = "DS"  -> NumericDS(s)
      [] s.cls = "DSR" -> <<s.n, s.probe_rate, s.sample_log,
                            NumericDS(s.dblstaircase)>>
Numeric(s) ==
    <<s.sub_queue_idx, s.has_probabilities,
      [i \in DOMAIN s.sub_queues |-> <<s.sub_queues[i].cls,
                                       NumericSub(s.sub_queues[i])>>]>>

\* the object in the pickle d
Snapshot(d) == CHOOSE x \in d : TRUE

\* C19 (the load step): load() of a pickle that holds s returns a procedure
\* whose fields other than `updated` and the probe bookkeeping equal those
\* of s, with `updated` true and the bookkeeping cleared at every level.
C19_LoadStep ==
    (last'.op = "load" /\ disk # {}) =>
        /\ Numeric(q') = Numeric(Snapshot(disk))
        /\ Rearmed(q')

\* C19: save() in any reachable state s writes s to the pickle, and a load()
\* that follows yields a procedure whose numeric fields (value, counter,
\* going_up, low_idx, high_idx, probe_rate, sub_queue_idx, at every level)
\* equal those of s; it differs from s only in `updated` being true and the
\* probe bookkeeping being cleared.
C19_RoundTrip ==
    /\ [](last.op = "save" => disk = {q})
    /\ [][C19_LoadStep]_vars

C19_Witness ==
    /\ last.op = "load" /\ last.res = Loaded /\ disk # {q}
    /\ Numeric(q) = Numeric(Snapshot(disk)) /\ Numeric(q) # Numeric(q0)
    /\ q.sub_queue_idx >= 0 /\ ~Snapshot(disk).updated

\* C20 (the load step): without a pickle, load() returns the procedure
\* constructed from its arguments and has written it to the pickle; with a
\* pickle, load() returns the stored procedure whatever its arguments are,
\* and leaves the pickle as it was.
C20_LoadStep ==
    last'.op = "load" =>
        /\ disk = {} =>
               /\ last'.res = Created
               /\ q0' \in LoadArgs /\ q' = q0'
               /\ disk' = {q'}
        /\ disk # {} =>
               /\ last'.res = Loaded
               /\ Numeric(q') = Numeric(Snapshot(disk))
               /\ disk' = disk

\* C20: PersistentBase.load constructs and saves a new procedure when there
\* is no snapshot, and otherwise returns the stored one, ignoring the
\* constructor arguments and not rewriting the snapshot.
C20_LoadOrCreate == [][C20_LoadStep]_vars

C20_Witness ==
    /\ last.op = "load" /\ last.res = Loaded
    /\ Len(q0.sub_queues) # Len(q.sub_queues) /\ q0.has_probabilities
    /\ Numeric(q) = Numeric(Snapshot(disk)) /\ disk # {q}

\* C21: in every state of a successfully constructed BaseHandler, under any
\* pulls and reset() calls, _ondeck is None if and only if consumed is true
\* (no item of the queue is None).
C21_OndeckIffConsumed ==
    h.state = "ready" => (IsNone(h.ondeck) <=> h.consumed)

C21_Witness ==
    /\ h.state = "ready" /\ h.consumed /\ IsNone(h.ondeck)
    /\ hlast.op = "next" /\ hlast.res.kind = "StopIteration" /\ Len(got) >= 2

\* the item on deck, as a sequence of 0 or 1 items
OnDeck == IF IsNone(h.ondeck) THEN <<>> ELSE <<Val(h.ondeck)>>

\* the queue yields finitely many items; how many
Finite(s) == s.cls = "BQ" \/ ~IsNone(s.max_items)
PolicyLen(s) ==
    IF s.cls = "BQ" THEN Len(s.items) * s.repetitions ELSE Val(s.max_items)

\* the items of a list, as a handler hands them out
Items(seq) == [i \in 1..Len(seq) |-> Item(seq[i])]

\* a pull has just raised StopIteration
PullStopped == hlast.op = "next" /\ hlast.res.kind = "StopIteration"

\* C22: the items the pulls of a BaseHandler have returned, followed by the
\* item on deck, are the items its queue has yielded, in order (for
\* block_queue: the front of the list it walks); a pull returns an item or
\* signals exhaustion; over a queue of K items at most K items are returned,
\* and a pull signals exhaustion exactly when all K have been returned.
C22_LookaheadKeepsOrder ==
    h.state = "ready" =>
        /\ yielded = got \o OnDeck
        /\ q.cls = "BQ" => yielded = Items(SubSeq(q.seq, 1, q.pos))
        /\ hlast.op = "next" => hlast.res.kind \in {"ret", "StopIteration"}
        /\ (hlast.op = "next" /\ hlast.res.kind = "ret") =>
               hlast.res = got[Len(got)]
        /\ Finite(q) =>
               /\ Len(got) <= PolicyLen(q)
               /\ PullStopped => (Len(got) = PolicyLen(q) /\ got = yielded)
               /\ Len(got) = PolicyLen(q) => (h.consumed /\ IsNone(h.ondeck))
        /\ (PullStopped /\ q.cls = "BQ") => got = Items(q.seq)

C22_Witness ==
    /\ h.state = "ready" /\ q.cls = "BQ" /\ q.shuffle /\ PullStopped
    /\ Len(got) = MaxLen * MaxReps /\ got = Items(q.seq)
    /\ q.seq # Repeat(q.items, q.repetitions)
    /\ Item(1) \in Range(got) /\ Item(2) \in Range(got)

\* C24: when the queue signals exhaustion while a BaseHandler fills its
\* lookahead, the handler does not let the signal out of __init__ or reset()
\* but records consumed = true, as __next__ does; a handler built or reset
\* over a queue that yields nothing ends with consumed = true.
C24_ExhaustionCaught ==
    h.state \in {"ready", "failed"} =>
        /\ hlast.op \in {"init", "reset"} => hlast.res.kind # "StopIteration"
        /\ (hlast.op \in {"init", "reset"} /\ Finite(q) /\ PolicyLen(q) = 0
                /\ hlast.res.kind # "ValueError") => h.consumed
        /\ (hlast.op = "next" /\ hlast.res.kind = "ret" /\ Finite(q)
                /\ Len(got) = PolicyLen(q)) => h.consumed

\* the items a handler over the deterministic queue s hands out
Replay(s) == Items(Repeat(s.items, s.repetitions))

\* C25: after reset(), from any state, consumed is false and an item is on
\* deck, and the queue and the handler are in a state that constructing the
\* handler anew from the original queue, items and parameters can produce (so
\* a second reset() changes nothing more); over block_queue without shuffle
\* the items handed out since the last reset() or construction are always a
\* front of the same sequence.
C25_ResetReplays ==
    h.state = "ready" =>
        /\ hlast.op = "reset" =>
               /\ ~h.consumed /\ ~IsNone(h.ondeck) /\ got = <<>>
               /\ \E o \in ProcNext(q0) : q = o.st /\ h = BH_init(o)
        /\ (q.cls = "BQ" /\ ~q.shuffle) =>
               got \o OnDeck = SubSeq(Replay(q0), 1, Len(got) + Len(OnDeck))

C25_Witness ==
    /\ h.state = "ready" /\ hlast.op = "reset" /\ q.cls = "BQ" /\ ~q.shuffle
    /\ ~h.consumed /\ Len(q.seq) = MaxLen * MaxReps /\ q.pos = 1
    /\ h.ondeck = Some(Item(q.items[1])) /\ q.items[1] # q.items[MaxLen]

\* C30: block_queue over N items with R repetitions walks a list of N * R
\* items: without shuffle, R copies of the item list one after the other;
\* with shuffle, a list in which each item occurs R times as often as in the
\* item list.  Each next() yields the next item of that list, and next()
\* signals exhaustion exactly when all N * R have been yielded.
C30_BlockQueue ==
    (q.cls = "BQ" /\ q.state = "run") =>
        LET N == Len(q.items)
            R == q.repetitions
        IN  /\ Len(q.seq) = N * R
            /\ ~q.shuffle =>
                   \A r \in 0..(R - 1) :
                       SubSeq(q.seq, r * N + 1, (r + 1) * N) = q.items
            /\ \A x \in Range(q.items) \cup Range(q.seq) :
                   Count(q.seq, x) = R * Count(q.items, x)
            /\ q.pos <= N * R
            /\ (last.op = "next" /\ last.res.kind = "ret") =>
                   (q.pos = pre.pos + 1 /\ last.res = Item(q.seq[q.pos]))
            /\ last.op = "next" =>
                   /\ last.res.kind \in {"ret", "StopIteration"}
                   /\ (last.res.kind = "StopIteration") <=> (pre.pos = N * R)

C30_Witness ==
    /\ q.cls = "BQ" /\ q.shuffle /\ q.pos = MaxLen * MaxReps
    /\ last.op = "next" /\ last.res.kind = "StopIteration"
    /\ q.repetitions = MaxReps /\ q.seq # Repeat(q.items, q.repetitions)

\* the Block used on its own, before and after the last call
TheBlock == mb.blocks["a"]
PreBlock == mpre.blocks["a"]

\* how many items the generator s has yielded, and how many of them the
\* Block b has handed out (one may be on deck)
Yielded(s) == IF s.cls = "BQ" THEN s.pos ELSE s.ii
HandedOut(b) == Yielded(b.queue) - (IF IsNone(b.hd.ondeck) THEN 0 ELSE 1)

\* C23: a Block over a queue of K >= 1 items has consumed (and
\* check_completion()) false while fewer than K items have been pulled and
\* true from the K-th pull on; the K-th pull returns its item (a Trial, once
\* iter(block) has run), and only a pull made after it signals exhaustion.
C23_ConsumedAtLastItem ==
    Finite(TheBlock.queue) =>
        LET K == PolicyLen(TheBlock.queue)
        IN  /\ K >= 1
            /\ TheBlock.hd.consumed <=> (HandedOut(TheBlock) = K)
            /\ mlast.op = "check" =>
                   mlast.res = Bool(HandedOut(TheBlock) = K)
            /\ (mlast.op = "next" /\ HandedOut(PreBlock) < K) =>
                   /\ HandedOut(TheBlock) = HandedOut(PreBlock) + 1
                   /\ mlast.res.kind # "StopIteration"
                   /\ ~IsNone(PreBlock.trial_index) =>
                          /\ mlast.res.kind = "trial"
                          /\ Item(mlast.res.condition) = Val(PreBlock.hd.ondeck)
            /\ (mlast.op = "next" /\ HandedOut(PreBlock) = K) =>
                   (mlast.res.kind = "StopIteration" /\ TheBlock = PreBlock)

C23_Witness ==
    /\ Finite(TheBlock.queue) /\ PolicyLen(TheBlock.queue) = MaxLen * MaxReps
    /\ mlast.op = "next" /\ mlast.res.kind = "trial"
    /\ HandedOut(PreBlock) = MaxLen * MaxReps - 1 /\ ~PreBlock.hd.consumed
    /\ TheBlock.hd.consumed

\* C26: after MixedBlockHandler.reset(), the i-th Trial that next_trial
\* returns has index i: the indices of the returned trials are 1, 2, 3, ...
\* with no gap and no repeat, whatever next_trial (also on a complete block),
\* reset_one and check_completion calls are interleaved.
C26_TrialNumbering ==
    (mlast.op = "next_trial" /\ mlast.res.kind = "trial") =>
        mlast.res.idx = ntrials

\* the size of the named block of the MixedBlockHandler
SizeOf(name) == IF name = "a" THEN SizeA ELSE SizeB

\* the named block has handed out every one of its conditions
Complete(name) == HandedOut(mb.blocks[name]) = SizeOf(name)

\* C27: check_completion(name) is the named block's consumed flag, which is
\* true exactly when the block has handed out all its conditions;
\* check_completion() is true exactly when every block is complete, so with
\* blocks of 3 and 5 conditions it is false until both are complete.
C27_CheckCompletion ==
    /\ \A n \in Names : mb.blocks[n].hd.consumed <=> Complete(n)
    /\ (mlast.op = "check" /\ mlast.name \in Names) =>
           /\ mlast.res = Bool(mb.blocks[mlast.name].hd.consumed)
           /\ mlast.res = Bool(Complete(mlast.name))
    /\ (mlast.op = "check" /\ mlast.name = "-") =>
           mlast.res = Bool(\A n \in Names : Complete(n))

C27_Witness ==
    /\ mlast.op = "check" /\ mlast.name = "-" /\ mlast.res = Bool(FALSE)
    /\ Complete("a") /\ HandedOut(mb.blocks["b"]) = SizeB - 1

\* C28: reset_one(name) re-arms the named block only: afterwards the block is
\* not complete, it has its first condition on deck and nothing handed out,
\* and its pulls hand out its conditions from the first one again; every
\* other block (item on deck, consumed flag, position in its sequence) and
\* the handler's trial index are as they were before the call.
C28_ResetOne ==
    /\ mlast.op = "reset_one" =>
           /\ mlast.res = Returned
           /\ ~MBH_check_completion(mb, mlast.name)
           /\ mb.blocks[mlast.name].hd.ondeck = Some(Item(1))
           /\ HandedOut(mb.blocks[mlast.name]) = 0
           /\ \A n \in Names \ {mlast.name} : mb.blocks[n] = mpre.blocks[n]
           /\ mb.trial_index = mpre.trial_index
    /\ (mlast.op = "next_trial" /\ mlast.res.kind = "trial") =>
           mlast.res.condition = HandedOut(mpre.blocks[mlast.name]) + 1

C28_Witness ==
    /\ mlast.op = "reset_one" /\ mlast.name = "a"
    /\ mpre.blocks["a"].hd.consumed
    /\ HandedOut(mb.blocks["b"]) = 2
    /\ mb.trial_index = Some(SizeA + 2)

\* C29: once iter(block) has run, the k-th pull that returns a Trial returns
\* one with index k, with the item that was on deck as its condition and this
\* Block as its block; a pull that raises StopIteration returns no Trial and
\* leaves the trial counter alone; iter(block) sets the counter back, so the
\* next Trial has index 1.
C29_BlockNumbering ==
    /\ ~IsNone(TheBlock.trial_index) => TheBlock.trial_index = Some(ntrials)
    /\ mlast.op = "iter" => (TheBlock.trial_index = Some(0) /\ ntrials = 0)
    /\ (mlast.op = "next" /\ ~IsNone(PreBlock.trial_index)) =>
           /\ mlast.res.kind \in {"trial", "StopIteration"}
           /\ mlast.res.kind = "trial" =>
                  /\ mlast.res.idx = Val(PreBlock.trial_index) + 1
                  /\ mlast.res.idx = ntrials
                  /\ Item(mlast.res.condition) = Val(PreBlock.hd.ondeck)
                  /\ mlast.res.cls = mlast.name
           /\ mlast.res.kind = "StopIteration" =>
                  /\ IsNone(PreBlock.hd.ondeck)
                  /\ TheBlock.trial_index = PreBlock.trial_index

C29_Witness ==
    /\ mlast.op = "next" /\ mlast.res.kind = "trial"
    /\ mlast.res.idx = MaxLen * MaxReps
    /\ HandedOut(PreBlock) = MaxLen * MaxReps - 1
    /\ TheBlock.hd.consumed

\* C31: random_queue over N > 0 items with max_items = M yields exactly M
\* items, each one of the item list, and then raises StopIteration; with
\* max_items unset it never raises StopIteration; over an empty item list
\* its first next() raises ValueError and it never yields an item.
C31_RandomQueue ==
    (q.cls = "RQ" /\ last.op = "next") =>
        /\ last.res.kind = "ret" =>
               /\ \E i \in DOMAIN q.items : last.res = Item(q.items[i])
               /\ q.ii = pre.ii + 1
        /\ last.res.kind # "ret" => q.ii = pre.ii
        /\ (Len(q.items) > 0 /\ ~IsNone(q.max_items)) =>
               /\ q.ii <= Val(q.max_items)
               /\ last.res.kind \in {"ret", "StopIteration"}
               /\ (last.res.kind = "StopIteration") <=>
                      (pre.ii = Val(q.max_items))
        /\ (Len(q.items) > 0 /\ IsNone(q.max_items)) => last.res.kind = "ret"
        /\ Len(q.items) = 0 =>
               /\ q.ii = 0
               /\ last.res.kind = IF pre.state = "new" THEN "ValueError"
                                  ELSE "StopIteration"

C31_Witness ==
    /\ q.cls = "RQ" /\ Len(q.items) = MaxLen
    /\ q.max_items = Some(MaxDraws - 1) /\ q.ii = MaxDraws - 1
    /\ last.op = "next" /\ last.res.kind = "StopIteration"

\* C32: in DoubleStaircaseReinforced, the outer update() that follows a
\* probe - also update(correct=False, no_resp=True) - leaves the inner
\* staircase's `updated` flag true, so a next() made with the outer
\* `updated` true that asks the inner staircase for a probe (one not yet
\* converged) never raises the inner staircase's usage error.
C32_InnerAcknowledged ==
    q.cls = "DSR" =>
        /\ (last.op = "update" /\ pre.last_probe) => q.dblstaircase.updated
        /\ (last.op = "next" /\ pre.updated
                /\ ~DS_converged(pre.dblstaircase)) =>
               last.res.kind # "UsageError"

\* C33: a DoubleStaircaseReinforced.next() made with sample_log unset and
\* `updated` true never fails because the range an easy trial is drawn from
\* is empty, and a selection it returns has a stimulus index in 0..N-1; this
\* holds in every reachable state, the initial one (low_idx = 0,
\* high_idx = N-1) included.
C33_EasyTrialInRange ==
    (q.cls = "DSR" /\ ~q.sample_log /\ last.op = "next" /\ pre.updated) =>
        /\ last.res.kind # "ValueError"
        /\ (last.res.kind = "ret" /\ ~q.last_probe) =>
               (0 <= last.res.idx /\ last.res.idx <= q.n - 1)

\* the stop criterion of staircase s is met: a next() that passes the
\* `updated` check raises the stop-signal
StopCriterion(s) ==
    CASE s.cls = "KS" -> KS_exhausted(s)
      [] s.cls = "DS" -> DS_converged(s)
      [] OTHER        -> FALSE

\* C34: exhaustion of a KaernbachStaircase or DoubleStaircase is stable: a
\* next() raises the usage error only while a selection it returned earlier
\* is unacknowledged, so once the stop criterion is met and no selection is
\* pending - in particular after a next() that raised the stop-signal, with
\* or without an update() in between - next() raises the stop-signal.
C34_ExhaustionStable ==
    (q.cls \in {"KS", "DS"} /\ last.op = "next") =>
        /\ last.res.kind = "UsageError" => pending >= 1
        /\ (StopCriterion(pre) /\ pending = 0) =>
               last.res.kind = "StopIteration"

\* C35: DoubleStaircase with rate_constant in (0, 1] over N >= 2 stimuli:
\* 0 <= low_idx <= high_idx <= N-1 always; low_idx never decreases and
\* high_idx never increases; a low-side probe has index p with
\* low_idx < p <= high_idx and a high-side probe one with
\* low_idx <= p < high_idx, so the stimulus lookup never fails.
C35_Bracket ==
    (q.cls = "DS" /\ q.n >= 2 /\ q.rate_constant[1] > 0
         /\ q.rate_constant[1] <= q.rate_constant[2]) =>
        /\ 0 <= q.low_idx /\ q.low_idx <= q.high_idx /\ q.high_idx <= q.n - 1
        /\ pre.low_idx <= q.low_idx /\ q.high_idx <= pre.high_idx
        /\ last.res.kind # "IndexError"
        /\ (last.op = "next" /\ last.res.kind = "ret") =>
               /\ q.trial.has /\ last.res.idx = q.trial.value
               /\ last.res.cls = (IF q.trial.low THEN "L" ELSE "R")
               /\ q.trial.low =>
                      (q.low_idx < last.res.idx /\ last.res.idx <= q.high_idx)
               /\ ~q.trial.low =>
                      (q.low_idx <= last.res.idx /\ last.res.idx < q.high_idx)

C35_Witness ==
    /\ q.cls = "DS" /\ q.n = MaxStims /\ q.rate_constant = <<1, 1>>
    /\ last.op = "next" /\ last.res.kind = "ret" /\ q.trial.low
    /\ last.res.idx = q.high_idx /\ q.high_idx = q.n - 1

\* the sub-procedures of the MixedAdaptiveQueue are KaernbachStaircase or
\* DoubleStaircase instances
PlainSubQueues ==
    /\ q.cls = "MAQ"
    /\ \A i \in DOMAIN q.sub_queues : q.sub_queues[i].cls \in {"KS", "DS"}

\* the sub-procedures whose `updated` flag is false
NotUpdated == {i \in DOMAIN q.sub_queues : ~q.sub_queues[i].updated}

\* whenever the outer `updated` flag is true every sub-procedure's is, and
\* whenever it is false exactly the one at sub_queue_idx has `updated` false
FlagsAgree ==
    /\ q.updated => NotUpdated = {}
    /\ ~q.updated => NotUpdated = {q.sub_queue_idx + 1}

\* C36 (as claimed): in a MixedAdaptiveQueue over KaernbachStaircase or
\* DoubleStaircase sub-procedures, under any next()/update() calls starting
\* with next(), the outer `updated` flag true means every sub-procedure's
\* flag is true, and false means exactly the sub-procedure at sub_queue_idx
\* has its flag false.
C36_Original == PlainSubQueues => FlagsAgree

\* C36 (amended): the same, for a MixedAdaptiveQueue built with probabilities
\* unset; with probabilities set next() clears the outer flag and raises the
\* not-implemented error without selecting a sub-procedure.
C36_UpdatedFlags ==
    (PlainSubQueues /\ ~q.has_probabilities) => FlagsAgree

C36_Witness ==
    /\ PlainSubQueues /\ ~q.has_probabilities /\ Len(q.sub_queues) = 2
    /\ last.op = "next" /\ last.res.kind = "ret"
    /\ ~q.updated /\ q.sub_queue_idx = 0 /\ NotUpdated = {1}
    /\ q.sub_queues[2] # q0.sub_queues[2]

\* load() after a crash in the present state returns the present procedure
Recovered == PersistentBase_load(disk, q0).st = q

\* the last call completed an update(), or nothing was called since
\* construction
AfterUpdate ==
    \/ last.op = "init"
    \/ last.op = "update" /\ last.res = Returned

\* C37: the pickle of a MixedAdaptiveQueue is written at construction and at
\* the end of each completed update() only - a next(), and an update() that
\* raises, leave it alone - and load() of the pickle gives exactly the
\* procedure as it was after the most recent completed update() (or after
\* construction): what an unacknowledged next() did is discarded.
C37_CrashRecovery ==
    /\ [](AfterUpdate => Recovered)
    /\ [][~AfterUpdate' => disk' = disk]_vars

\* C38: a Block's completion is sticky: once consumed is true, pulls,
\* iter(block) and check_completion() leave it true, every pull raises
\* StopIteration (so a Block iterated a second time without reset yields no
\* trial) and check_completion() returns True; reset() makes consumed false,
\* and nothing else does.
C38_CompletionSticky ==
    /\ (PreBlock.hd.consumed /\ mlast.op \in {"next", "iter", "check"}) =>
           /\ TheBlock.hd.consumed
           /\ mlast.op = "next" => mlast.res.kind = "StopIteration"
           /\ mlast.op = "check" => mlast.res = Bool(TRUE)
    /\ mlast.op = "reset" => (mlast.res = Returned /\ ~TheBlock.hd.consumed)
    /\ (PreBlock.hd.consumed /\ ~TheBlock.hd.consumed) => mlast.op = "reset"

C38_Witness ==
    /\ mlast.op = "next" /\ mlast.res.kind = "StopIteration"
    /\ PreBlock.hd.consumed /\ TheBlock.trial_index = Some(0)
    /\ HandedOut(TheBlock) = MaxLen * MaxReps

\* C39: PeckingAndPlaybackTest.trial_iter never calls next_trial on a block
\* that reports completion, whatever the responses and timeouts are: every
\* resumption yields a trial until check_completion() is true, and the
\* generator does not end because a pull raised StopIteration.
C39_NeverPullsComplete ==
    mlast.op = "trial_iter" =>
        /\ mlast.name # "-" => ~MBH_check_completion(mpre, mlast.name)
        /\ mlast.res.kind \in {"trial", "done"}
        /\ mlast.res = Done => MBH_check_completion(mb, "-")

===========================================================================
